---- MODULE Spec2Model ----
(***************************************************************************)
(* A model of components/main/layout/wrapper.rs: the layout-side wrapper   *)
(* of DOM nodes (LayoutNode), its pseudo-element aware navigation          *)
(* (first_child, next_sibling, prev_sibling, get_pseudo_node), the         *)
(* children iterator, the eager preorder iterator and the postorder        *)
(* traversal protocol.                                                     *)
(*                                                                         *)
(* A node is identified by a number.  Option<LayoutNode> is a number too:  *)
(* None is 0.  A task failure (fail!, unwrap() of None, get_ref() of None) *)
(* is the value Fail.                                                      *)
(***************************************************************************)
EXTENDS Integers, Sequences, FiniteSets, TLC

\* Number of nodes the document owns (the real tree).
MaxReal == 4
\* Most handles one children iterator is let to return (a cyclic sibling
\* chain would otherwise never end).
MaxYield == 6
\* How many times an exhausted iterator is asked again.
MaxNone == 2

None == 0
Fail == -1

RealNodes == 1..MaxReal
\* The two synthesized nodes of a pseudo-element: the element tagged
\* "before" or "after" (LayoutData's before_parent_node / after_parent_node)
\* and its text (before_node / after_node).
PseudoParent == MaxReal + 1
PseudoNode == MaxReal + 2
PseudoNodes == {PseudoParent, PseudoNode}
Nodes == RealNodes \cup PseudoNodes

Before == "Before"
After == "After"
PseudoElement == {Before, After}

VARIABLES
    node,          \* node[n]: the fields of script::dom::node::Node that layout reads
    layout_data,   \* layout_data[n]: the layout side-table entry of n
    ret,           \* the last navigation call and what it returned
    iter,          \* the LayoutNodeChildrenIterator in use: whose children, its status
    current_node,  \* LayoutNodeChildrenIterator.current_node
    yielded,       \* what the children iterator has returned so far
    stack,         \* the activation records of traverse_postorder
    calls,         \* the should_prune and process calls made so far
    result,        \* what the outermost traverse_postorder returned
    traversal,     \* the PostorderNodeTraversal object: where it prunes, where process fails
    tree_iter,     \* the LayoutTreeIterator in use: nodes, index
    scope          \* the with_layout_node call: its chain, the handles its body holds

vars == <<node, layout_data, ret, iter, current_node, yielded, stack, calls, result, traversal,
          tree_iter, scope>>

----------------------------------------------------------------------------
(* Kinds of node *)

is_text(n) == node[n].type_id = "text"

is_element(n) == node[n].type_id = "element"

is_document(n) == node[n].type_id = "document"

----------------------------------------------------------------------------
(* The pseudo-element resolver *)

pseudo_parent_node(d, pseudo_element) ==
    IF pseudo_element = Before THEN d.before_parent_node ELSE d.after_parent_node

pseudo_node(d, pseudo_element) ==
    IF pseudo_element = Before THEN d.before_node ELSE d.after_node

\* A text branch that reads the layout data of the node's parent: its style
\* for the pseudo-element and the node it has recorded.
get_pseudo_node_text_of_parent(n, pseudo_element) ==
    LET p == node[n].parent_node IN
    IF p = None THEN None
    ELSE IF ~layout_data[p].present THEN None
    ELSE IF (IF pseudo_element = Before THEN layout_data[p].before_style
             ELSE layout_data[p].after_style) = "inline"
         THEN pseudo_node(layout_data[p], pseudo_element)
         ELSE None

\* get_pseudo_node when self.is_text(): the node's OWN layout data is read.
get_pseudo_node_text(n, pseudo_element) ==
    LET d == layout_data[n] IN
    IF ~d.present THEN None
    ELSE IF pseudo_parent_node(d, pseudo_element).node = None THEN None
    ELSE IF pseudo_parent_node(d, pseudo_element).display = "inline"
         THEN pseudo_node(d, pseudo_element)
         ELSE None

first_child_plain(n) == node[n].first_child

\* A first_child that consults the side-table entry of the parent itself.
first_child_of_parent_entry(n) ==
    IF /\ node[n].first_child # None
       /\ layout_data[n].present
       /\ layout_data[n].before_style # "absent"
       /\ layout_data[n].before_node # None
    THEN layout_data[n].before_node
    ELSE node[n].first_child

\* A first_child that substitutes without asking whether the first child is text.
first_child_any_kind(n) ==
    LET fc == node[n].first_child IN
    IF fc # None /\ get_pseudo_node_text(fc, Before) # None
    THEN get_pseudo_node_text(fc, Before)
    ELSE fc

first_child(n) ==
    LET fc == node[n].first_child IN
    IF fc # None /\ is_text(fc) /\ get_pseudo_node_text(fc, Before) # None
    THEN get_pseudo_node_text(fc, Before)
    ELSE fc

\* An element branch that reads the entry of the plainly linked first child
\* and returns the node recorded there.
get_pseudo_node_element_plain(n, pseudo_element) ==
    LET fc == node[n].first_child IN
    IF fc = None THEN None
    ELSE LET d == layout_data[fc] IN
         IF ~d.present THEN None
         ELSE IF pseudo_parent_node(d, pseudo_element).node = None THEN None
         ELSE IF pseudo_parent_node(d, pseudo_element).display = "block"
              THEN pseudo_node(d, pseudo_element)
              ELSE None

\* get_pseudo_node when self.is_element(): the layout data of self.first_child()
\* (the pseudo-aware first child) is read and its *_parent_node is returned.
get_pseudo_node_element(n, pseudo_element) ==
    LET fc == first_child(n) IN
    IF fc = None THEN None
    ELSE LET d == layout_data[fc] IN
         IF ~d.present THEN None
         ELSE IF pseudo_parent_node(d, pseudo_element).node = None THEN None
         ELSE IF pseudo_parent_node(d, pseudo_element).display = "block"
              THEN pseudo_parent_node(d, pseudo_element).node
              ELSE None

get_pseudo_node(n, pseudo_element) ==
    IF is_text(n) THEN get_pseudo_node_text(n, pseudo_element)
    ELSE IF is_element(n) THEN get_pseudo_node_element(n, pseudo_element)
    ELSE None

parent_node(n) == node[n].parent_node

\* The test that opens prev_sibling and next_sibling: is self an element with
\* this tag, or a text node whose parent is one.  parent_node().unwrap() fails
\* on a text node that has no parent.
\* A marker test that never finds the tag.
tagged_never(n, tag) ==
    IF is_text(n) /\ node[n].parent_node = None THEN "fail" ELSE "no"

tagged(n, tag) ==
    IF is_element(n) THEN (IF node[n].tag_name = tag THEN "yes" ELSE "no")
    ELSE IF is_text(n)
         THEN IF parent_node(n) = None THEN "fail"
              ELSE IF ~is_element(parent_node(n)) THEN "fail"
              ELSE IF node[parent_node(n)].tag_name = tag THEN "yes" ELSE "no"
    ELSE "no"

next_sibling_unguarded(n) ==
    LET t == tagged(n, "before") IN
    IF t = "fail" THEN Fail
    ELSE IF get_pseudo_node(n, After) # None THEN get_pseudo_node(n, After)
    ELSE LET ns == node[n].next_sibling IN
         IF ns = None THEN None
         ELSE IF get_pseudo_node(ns, Before) # None
              THEN get_pseudo_node(ns, Before)
              ELSE ns

next_sibling(n) ==
    LET t == tagged(n, "before") IN
    IF t = "fail" THEN Fail
    ELSE IF t = "yes" THEN node[n].next_sibling
    ELSE IF get_pseudo_node(n, After) # None THEN get_pseudo_node(n, After)
    ELSE LET ns == node[n].next_sibling IN
         IF ns = None THEN None
         ELSE IF get_pseudo_node(ns, Before) # None
              THEN get_pseudo_node(ns, Before)
              ELSE ns

prev_sibling(n) ==
    LET t == tagged(n, "after") IN
    IF t = "fail" THEN Fail
    ELSE IF t = "yes" THEN node[n].prev_sibling
    ELSE IF get_pseudo_node(n, After) # None THEN get_pseudo_node(n, After)
    ELSE LET ps == node[n].prev_sibling IN
         IF ps = None THEN None
         ELSE IF get_pseudo_node(ps, After) # None
              THEN get_pseudo_node(ps, After)
              ELSE ps

Failed == [failed |-> TRUE, elems |-> <<>>]

Returned(s) == [failed |-> FALSE, elems |-> s]

necessary_pseudo_elements(n) ==
    IF ~layout_data[n].present THEN Failed
    ELSE IF parent_node(n) = None THEN Returned(<<>>)
    ELSE IF ~layout_data[parent_node(n)].present THEN Failed
    ELSE LET ldw == layout_data[n]
             p_ldw == layout_data[parent_node(n)]
             b == IF p_ldw.before_style # "absent" /\ ldw.before_node = None
                  THEN <<Before>> ELSE <<>>
             a == IF p_ldw.after_style # "absent" /\ ldw.after_node = None
                  THEN <<After>> ELSE <<>>
         IN Returned(b \o a)

----------------------------------------------------------------------------
(* LayoutNodeChildrenIterator *)

children_plain(n) == node[n].first_child

\* children(): the iterator's first current_node.
children(n) == first_child(n)

\* LayoutNodeChildrenIterator::next on the iterator whose current_node is cur:
\* what it returns and the current_node it leaves; next_sibling failing fails
\* the call.
children_next(cur) ==
    IF cur = None THEN [failed |-> FALSE, returns |-> None, current_node |-> None]
    ELSE IF next_sibling(cur) = Fail
         THEN [failed |-> TRUE, returns |-> None, current_node |-> cur]
         ELSE [failed |-> FALSE, returns |-> cur, current_node |-> next_sibling(cur)]

----------------------------------------------------------------------------
(* traverse_postorder / traverse_postorder_mut and gather_layout_nodes *)

\* PostorderNodeTraversal::should_prune and ::process of the traversal object t.
should_prune(t, n) == n \in t.prune

process(t, n) == n \notin t.fail

Frame(n) == [self |-> n, opt_kid |-> None, pc |-> "enter", got |-> TRUE]

Top == stack[Len(stack)]

\* The activation on top returns v to its caller.
Return(v) ==
    IF Len(stack) = 1
    THEN /\ stack' = <<>>
         /\ result' = IF v THEN "true" ELSE "false"
    ELSE /\ stack' = [SubSeq(stack, 1, Len(stack) - 1) EXCEPT
                        ![Len(stack) - 1].pc = "returned", ![Len(stack) - 1].got = v]
         /\ UNCHANGED result

Called(fn, n, v) == Append(calls, [fn |-> fn, node |-> n, returned |-> v])

RECURSIVE gather_layout_nodes(_, _), gather_children(_, _)

\* gather_layout_nodes pushing every handle after its children, whatever
\* the order asked for.
gather_layout_nodes_post(cur, postorder) ==
    LET kids == gather_children(children(cur), postorder) IN
    [failed |-> kids.failed, refs |-> kids.refs \o <<cur>>]

\* for kid in cur.children() { gather_layout_nodes(&kid, refs, postorder) },
\* from the iterator's current_node on.
gather_children(kid, postorder) ==
    IF kid = None THEN [failed |-> FALSE, refs |-> <<>>]
    ELSE IF children_next(kid).failed THEN [failed |-> TRUE, refs |-> <<>>]
    ELSE LET here == gather_layout_nodes(kid, postorder)
             rest == gather_children(children_next(kid).current_node, postorder)
         IN [failed |-> here.failed \/ rest.failed, refs |-> here.refs \o rest.refs]

gather_layout_nodes(cur, postorder) ==
    LET kids == gather_children(children(cur), postorder) IN
    [failed |-> kids.failed,
     refs   |-> (IF ~postorder THEN <<cur>> ELSE <<>>) \o kids.refs
                \o (IF postorder THEN <<cur>> ELSE <<>>)]

\* LayoutTreeIterator::next starting over once it has run out.
tree_iter_next_restarting(it) ==
    IF it.index >= Len(it.nodes)
    THEN [returns |-> None, index |-> 0]
    ELSE [returns |-> it.nodes[it.index + 1], index |-> it.index + 1]

\* LayoutTreeIterator::next: what it returns and the index it leaves.
tree_iter_next(it) ==
    IF it.index >= Len(it.nodes)
    THEN [returns |-> None, index |-> it.index]
    ELSE [returns |-> it.nodes[it.index + 1], index |-> it.index + 1]

----------------------------------------------------------------------------
(* The documents and side-tables the operations are run on.  The document   *)
(* owns the real nodes 1..MaxReal: node k's parent is an earlier node and  *)
(* the children of a node are ordered by their numbers.                    *)

MinOf(S) == CHOOSE x \in S : \A y \in S : x <= y

MaxOf(S) == CHOOSE x \in S : \A y \in S : x >= y

OrNone(S, pick(_)) == IF S = {} THEN None ELSE pick(S)

Kids(pv, p) == {k \in RealNodes : pv[k] = p}

RealNext(pv, k) ==
    IF k = None \/ pv[k] = None THEN None
    ELSE OrNone({j \in Kids(pv, pv[k]) : j > k}, MinOf)

RealPrev(pv, k) ==
    IF k = None \/ pv[k] = None THEN None
    ELSE OrNone({j \in Kids(pv, pv[k]) : j < k}, MaxOf)

ParentOf(pv, k) == IF k = None THEN None ELSE pv[k]

RECURSIVE Ancestors(_, _)
Ancestors(pv, k) == IF pv[k] = None THEN {} ELSE {pv[k]} \cup Ancestors(pv, pv[k])

\* Every ordered tree once: the nodes are numbered in document order, so a
\* node hangs under the node before it or under one of that node's ancestors.
ParentVectors ==
    {pv \in [RealNodes -> 0..MaxReal] :
        /\ pv[1] = None
        /\ \A k \in RealNodes \ {1} : pv[k] \in 1..(k - 1)
        /\ \A k \in RealNodes \ {1} : pv[k] = k - 1 \/ pv[k] \in Ancestors(pv, k - 1)}

\* A text node has no children; a document node is the root and holds elements.
KindChoices(pv, roots) ==
    {kd \in [RealNodes -> {"element", "text", "document"}] :
        /\ \A k \in RealNodes : Kids(pv, k) # {} => kd[k] # "text"
        /\ \A k \in RealNodes : kd[k] = "document" => k = 1
        /\ kd[1] \in roots
        /\ kd[1] = "document" => \A k \in Kids(pv, 1) : kd[k] = "element"}

RealNode(pv, kd, k) ==
    [type_id      |-> kd[k],
     tag_name     |-> IF kd[k] = "element" THEN "div" ELSE "",
     parent_node  |-> pv[k],
     first_child  |-> OrNone(Kids(pv, k), MinOf),
     last_child   |-> OrNone(Kids(pv, k), MaxOf),
     prev_sibling |-> RealPrev(pv, k),
     next_sibling |-> RealNext(pv, k)]

Unlinked(kind, tag) ==
    [type_id |-> kind, tag_name |-> tag, parent_node |-> None, first_child |-> None,
     last_child |-> None, prev_sibling |-> None, next_sibling |-> None]

LinkModes == {"unlinked", "before-inline", "before-block", "after-inline", "after-block"}

\* The synthesized nodes as the style pass leaves them, attached beside the
\* real node pn through the linkage setters: for an inline pseudo-element the
\* text is chained to pn, for a block one the tagged element is chained to
\* pn's parent.
SynthParent(pv, pn, lm, tag) ==
    LET s == pv[pn]
        built == [Unlinked("element", tag) EXCEPT
                    !.first_child = PseudoNode, !.last_child = PseudoNode]
    IN CASE lm = "unlinked" -> Unlinked("element", tag)
         [] lm = "before-block" ->
              [built EXCEPT !.parent_node = ParentOf(pv, s), !.next_sibling = s,
                            !.prev_sibling = RealPrev(pv, s)]
         [] lm = "after-block" ->
              [built EXCEPT !.parent_node = ParentOf(pv, s), !.prev_sibling = s,
                            !.next_sibling = RealNext(pv, s)]
         [] OTHER -> built

SynthText(pv, pn, lm) ==
    LET child == [Unlinked("text", "") EXCEPT !.parent_node = PseudoParent]
    IN CASE lm = "unlinked" -> Unlinked("text", "")
         [] lm = "before-inline" ->
              [child EXCEPT !.next_sibling = pn, !.prev_sibling = RealPrev(pv, pn)]
         [] lm = "after-inline" ->
              [child EXCEPT !.prev_sibling = pn, !.next_sibling = RealNext(pv, pn)]
         [] OTHER -> child

Document(pv, kd, pn, lm, tag) ==
    [n \in Nodes |->
        IF n \in RealNodes THEN RealNode(pv, kd, n)
        ELSE IF n = PseudoParent THEN SynthParent(pv, pn, lm, tag)
        ELSE SynthText(pv, pn, lm)]

NoPseudo == [node |-> None, display |-> "none"]

EmptyData ==
    [present |-> TRUE, before_style |-> "absent", after_style |-> "absent",
     before_parent_node |-> NoPseudo, before_node |-> None,
     after_parent_node |-> NoPseudo, after_node |-> None]

NoData == [EmptyData EXCEPT !.present = FALSE]

ParentRecords ==
    {NoPseudo} \cup {[node |-> PseudoParent, display |-> d] : d \in {"inline", "block"}}

\* What the style pass may have recorded on the node the pseudo-element hangs on.
OwnEntries ==
    {[EmptyData EXCEPT !.before_parent_node = bp, !.before_node = bn,
                       !.after_parent_node = ap, !.after_node = an] :
        bp \in ParentRecords, bn \in {None, PseudoNode},
        ap \in ParentRecords, an \in {None, PseudoNode}}

\* What it may have recorded on that node's parent: the styles of the
\* pseudo-elements and, with a before style, the synthesized node.
ParentEntries ==
    {[EmptyData EXCEPT !.before_style = bs, !.after_style = as,
                       !.before_node = IF bs = "absent" THEN None ELSE PseudoNode] :
        bs \in {"absent", "inline", "block"}, as \in {"absent", "block"}}

SideTable(pv, pn, own, par) ==
    [n \in Nodes |->
        IF n = pn THEN own
        ELSE IF n = pv[pn] THEN par
        ELSE IF n \in RealNodes THEN EmptyData
        ELSE NoData]

Nones(s) == Cardinality({i \in 1..Len(s) : s[i] = None})

NoCall == [op |-> "none", val |-> [n \in Nodes |-> None]]

NoIter == [self |-> None, status |-> "idle"]

NoTraversal == [prune |-> {}, fail |-> {}]

NoTreeIter == [nodes |-> <<>>, index |-> 0, status |-> "idle"]

\* No with_layout_node call is running: no heavy_iron_ball lives, no handle exists.
NoScope == [chain |-> None, live |-> {}, handles |-> {}, made |-> 0, body |-> "", returned |-> ""]

Idle ==
    /\ ret = NoCall
    /\ iter = NoIter
    /\ current_node = None
    /\ yielded = <<>>
    /\ stack = <<>>
    /\ calls = <<>>
    /\ result = "none"
    /\ traversal = NoTraversal
    /\ tree_iter = NoTreeIter
    /\ scope = NoScope

----------------------------------------------------------------------------
(* SpecNav: the navigation operations, each called on every handle *)

InitNav ==
    \E pv \in ParentVectors :
    \E kd \in KindChoices(pv, {"element"}) :
    \E pn \in RealNodes \ {1} :
    \E own \in OwnEntries \cup {NoData} :
    \E par \in ParentEntries \cup {NoData} :
        /\ node = Document(pv, kd, pn, "unlinked", "before")
        /\ layout_data = SideTable(pv, pn, own, par)
        /\ Idle

OnEvery(f(_)) == [n \in Nodes |-> f(n)]

NavUnchanged ==
    UNCHANGED <<node, layout_data, iter, current_node, yielded, stack, calls, result, traversal,
                tree_iter, scope>>

CallFirstChild ==
    /\ ret' = [op |-> "first_child", val |-> OnEvery(first_child)]
    /\ NavUnchanged

CallNextSibling ==
    /\ ret' = [op |-> "next_sibling", val |-> OnEvery(next_sibling)]
    /\ NavUnchanged

CallPrevSibling ==
    /\ ret' = [op |-> "prev_sibling", val |-> OnEvery(prev_sibling)]
    /\ NavUnchanged

CallParentNode ==
    /\ ret' = [op |-> "parent_node", val |-> OnEvery(parent_node)]
    /\ NavUnchanged

CallNecessaryPseudoElements ==
    /\ ret' = [op |-> "necessary_pseudo_elements",
               val |-> OnEvery(necessary_pseudo_elements)]
    /\ NavUnchanged

GetPseudoNodeOp(pe) ==
    IF pe = Before THEN "get_pseudo_node(Before)" ELSE "get_pseudo_node(After)"

CallGetPseudoNode ==
    /\ \E pe \in PseudoElement :
          ret' = [op |-> GetPseudoNodeOp(pe), val |-> [n \in Nodes |-> get_pseudo_node(n, pe)]]
    /\ NavUnchanged

NextNav ==
    \/ CallFirstChild
    \/ CallNextSibling
    \/ CallPrevSibling
    \/ CallParentNode
    \/ CallNecessaryPseudoElements
    \/ CallGetPseudoNode

SpecNav == InitNav /\ [][NextNav]_vars

----------------------------------------------------------------------------
(* Claims about the navigation operations *)

RealFirstChild(p) == node[p].first_child

EligibleInlineBefore(n) ==
    /\ layout_data[n].present
    /\ layout_data[n].before_parent_node.node # None
    /\ layout_data[n].before_parent_node.display = "inline"
    /\ layout_data[n].before_node # None

StyleOf(d, k) == IF k = Before THEN d.before_style ELSE d.after_style

RecordedOf(d, k) == IF k = Before THEN d.before_node ELSE d.after_node

Range(s) == {s[i] : i \in 1..Len(s)}

\* The kinds for which n's parent has a style entry and n has no synthesized
\* node recorded; an absent entry has neither.
Necessary(n) ==
    {k \in PseudoElement :
        /\ parent_node(n) # None
        /\ layout_data[parent_node(n)].present
        /\ StyleOf(layout_data[parent_node(n)], k) # "absent"
        /\ ~(layout_data[n].present /\ RecordedOf(layout_data[n], k) # None)}

\* C9: necessary_pseudo_elements(n) returns exactly the kinds for which n's
\* parent has a style entry and n has no recorded synthesized node, and the
\* empty set when n has no parent.
C9_NecessaryPseudoElements ==
    ret.op = "necessary_pseudo_elements" =>
        \A n \in Nodes :
            /\ ~ret.val[n].failed
            /\ Range(ret.val[n].elems) = Necessary(n)

\* C10: data absence is never a failure: first_child, next_sibling,
\* prev_sibling, parent_node and necessary_pseudo_elements return a value, none
\* or the empty list on every node, with or without a parent or a side-table entry.
C10_AbsenceNeverFails ==
    /\ ret.op \in {"first_child", "next_sibling", "prev_sibling", "parent_node"}
          => \A n \in Nodes : ret.val[n] # Fail
    /\ ret.op = "necessary_pseudo_elements"
          => \A n \in Nodes : ~ret.val[n].failed

----------------------------------------------------------------------------
(* SpecIter: the children iterator, over documents whose synthesized nodes  *)
(* are attached, under every record the side-table may hold of them.       *)

\* As OwnEntries, a recorded node going with an inline parent record.
IterEntries ==
    {[EmptyData EXCEPT !.before_parent_node = bp[1], !.before_node = bp[2],
                       !.after_parent_node = ap[1], !.after_node = ap[2]] :
        bp \in (ParentRecords \X {None}) \cup
               {<<[node |-> PseudoParent, display |-> "inline"], PseudoNode>>},
        ap \in (ParentRecords \X {None}) \cup
               {<<[node |-> PseudoParent, display |-> "inline"], PseudoNode>>}}

BlockBeforeEntry ==
    [EmptyData EXCEPT !.before_style = "block", !.before_node = PseudoParent]

\* The tag the style pass gives the synthesized element.
TagFor(lm) ==
    IF lm \in {"before-inline", "before-block"} THEN "before"
    ELSE IF lm \in {"after-inline", "after-block"} THEN "after"
    ELSE "before"

InitIter ==
    \E pv \in ParentVectors :
    \E kd \in KindChoices(pv, {"element"}) :
    \E pn \in RealNodes \ {1} :
    \E lm \in LinkModes :
    \E own \in IterEntries :
    \E par \in {EmptyData} \cup (IF lm = "unlinked" THEN {BlockBeforeEntry} ELSE {}) :
        /\ node = Document(pv, kd, pn, lm, TagFor(lm))
        /\ layout_data = SideTable(pv, pn, own, par)
        /\ Idle

IterUnchanged ==
    UNCHANGED <<node, layout_data, ret, stack, calls, result, traversal, tree_iter, scope>>

\* Children that also links what it found as the node's first child.
ChildrenLinking ==
    /\ iter.status = "idle"
    /\ \E n \in Nodes :
          /\ iter' = [self |-> n, status |-> "active"]
          /\ current_node' = children(n)
          /\ node' = [node EXCEPT ![n].first_child = children(n)]
    /\ yielded' = <<>>
    /\ UNCHANGED <<layout_data, ret, stack, calls, result, traversal, tree_iter, scope>>

Children ==
    /\ iter.status = "idle"
    /\ \E n \in Nodes :
          /\ iter' = [self |-> n, status |-> "active"]
          /\ current_node' = children(n)
    /\ yielded' = <<>>
    /\ IterUnchanged

ChildrenNext ==
    /\ iter.status = "active"
    /\ Len(yielded) < MaxYield
    /\ Nones(yielded) < MaxNone
    /\ LET r == children_next(current_node) IN
          /\ iter' = [iter EXCEPT !.status = IF r.failed THEN "failed" ELSE "active"]
          /\ current_node' = r.current_node
          /\ yielded' = IF r.failed THEN yielded ELSE Append(yielded, r.returns)
    /\ IterUnchanged

NextIter == Children \/ ChildrenNext

SpecIter == InitIter /\ [][NextIter]_vars

----------------------------------------------------------------------------
(* Claims about the children iterator *)

\* The k-th handle of the chain first_child(n), next_sibling(first_child(n)), ...
\* (k from 0); none and a failure stay what they are.
RECURSIVE Sibling(_, _)
Sibling(n, k) ==
    IF k = 0 THEN first_child(n)
    ELSE LET y == Sibling(n, k - 1) IN
         IF y = None \/ y = Fail THEN y ELSE next_sibling(y)

\* C4: what children(n) yields is first_child(n), next_sibling(first_child(n)),
\* ... in this order, none from the first application that gives none; the
\* iterator fails exactly where an application of next_sibling fails.
C4_ChildrenSequence ==
    iter.status # "idle" =>
        /\ \A k \in 1..Len(yielded) : yielded[k] = Sibling(iter.self, k - 1)
        /\ \A k \in 0..Len(yielded) : Sibling(iter.self, k) # Fail
        /\ iter.status = "active" => current_node = Sibling(iter.self, Len(yielded))
        /\ iter.status = "failed" => Sibling(iter.self, Len(yielded) + 1) = Fail

C4_Witness ==
    /\ iter.status = "active"
    /\ Len(yielded) >= 4
    /\ yielded[1] \in PseudoNodes
    /\ yielded[2] \in RealNodes
    /\ yielded[3] \in RealNodes
    /\ yielded[Len(yielded)] = None

NoHandleTwice ==
    \A i, j \in 1..Len(yielded) : (i < j /\ yielded[i] # None) => yielded[i] # yielded[j]

Attached ==
    \A x \in Nodes :
        LET b == get_pseudo_node(x, Before)
            a == get_pseudo_node(x, After)
        IN /\ b # None => (tagged(b, "before") = "yes" /\ node[b].next_sibling = x)
           /\ a # None =>
                 /\ tagged(a, "before") # "fail"
                 /\ node[a].next_sibling = node[x].next_sibling
                 /\ tagged(a, "before") = "no" => get_pseudo_node(a, After) = None

RECURSIVE RealSiblingsFrom(_)
RealSiblingsFrom(k) ==
    IF k = None THEN <<>> ELSE <<k>> \o RealSiblingsFrom(node[k].next_sibling)

\* The children the document itself links under n, in order.
RealChildren(n) == RealSiblingsFrom(node[n].first_child)

\* Root's side-table has a block before style and before_node P, Root's real
\* first child is an element A that has a real next sibling, and Root's
\* children are being iterated.
BlockBeforeScenario(r) ==
    /\ iter.self = r
    /\ layout_data[r].present
    /\ layout_data[r].before_style = "block"
    /\ layout_data[r].before_node # None
    /\ node[r].first_child # None
    /\ is_element(node[r].first_child)
    /\ node[node[r].first_child].next_sibling # None

YieldedIs(s) ==
    \A k \in 1..Len(yielded) : yielded[k] = IF k <= Len(s) THEN s[k] ELSE None

\* C7 as the specification states it: in that scenario first_child(Root) is P
\* and not A, and children(Root) yields P, A, B and the other real children.
C7_RootBeforeNode ==
    \A r \in Nodes :
        BlockBeforeScenario(r) =>
            /\ yielded = <<>> => /\ current_node = layout_data[r].before_node
                                 /\ current_node # node[r].first_child
            /\ YieldedIs(<<layout_data[r].before_node>> \o RealChildren(r))

OnlyEntryIs(r) ==
    \A n \in Nodes \ {r} : layout_data[n] \in {EmptyData, NoData}

\* C7, amended: in that scenario first_child(Root) is A, the real first child,
\* and not P, and children(Root) yields A first; with no entry but Root's in
\* the side-table it yields A, B and the other real children in order, never P.
C7_RootFirstChild ==
    \A r \in Nodes :
        BlockBeforeScenario(r) =>
            /\ yielded = <<>> => current_node = node[r].first_child
            /\ yielded # <<>> => yielded[1] = node[r].first_child
            /\ OnlyEntryIs(r) => YieldedIs(RealChildren(r))

C7_Witness ==
    \E r \in Nodes :
        /\ BlockBeforeScenario(r)
        /\ OnlyEntryIs(r)
        /\ Len(yielded) >= 3
        /\ yielded[Len(yielded)] = None

----------------------------------------------------------------------------
(* Spec: the postorder traversal and the preorder iterator, from the root  *)
(* of documents whose synthesized nodes are attached as the side-table     *)
(* records them.                                                           *)

AttachedEntry(lm) ==
    CASE lm = "before-inline" ->
            [EmptyData EXCEPT !.before_node = PseudoNode,
                !.before_parent_node = [node |-> PseudoParent, display |-> "inline"]]
      [] lm = "before-block" ->
            [EmptyData EXCEPT !.before_node = PseudoNode,
                !.before_parent_node = [node |-> PseudoParent, display |-> "block"]]
      [] lm = "after-inline" ->
            [EmptyData EXCEPT !.after_node = PseudoNode,
                !.after_parent_node = [node |-> PseudoParent, display |-> "inline"]]
      [] lm = "after-block" ->
            [EmptyData EXCEPT !.after_node = PseudoNode,
                !.after_parent_node = [node |-> PseudoParent, display |-> "block"]]
      [] OTHER -> EmptyData

\* The traversal objects tried: one that prunes nowhere or at one node, whose
\* process fails nowhere or at one node; both at once on two real nodes.
Traversals ==
    {[prune |-> p, fail |-> {}] : p \in {{}} \cup {{n} : n \in Nodes}}
    \cup {[prune |-> {}, fail |-> {n}] : n \in Nodes}
    \cup {[prune |-> {n}, fail |-> {m}] : n, m \in RealNodes}

Init ==
    \E pv \in ParentVectors :
    \E kd \in KindChoices(pv, {"element", "document"}) :
    \E pn \in RealNodes \ {1} :
    \E lm \in LinkModes :
        /\ node = Document(pv, kd, pn, lm, TagFor(lm))
        /\ layout_data = SideTable(pv, pn, AttachedEntry(lm), EmptyData)
        /\ Idle

TravUnchanged ==
    UNCHANGED <<node, layout_data, ret, iter, current_node, yielded, traversal, tree_iter, scope>>

\* The layout task starts traverse_postorder on the root with some traversal object.
TraversePostorder ==
    /\ result = "none"
    /\ tree_iter.status # "active"
    /\ \E t \in Traversals : traversal' = t
    /\ stack' = <<Frame(1)>>
    /\ result' = "running"
    /\ UNCHANGED <<calls, node, layout_data, ret, iter, current_node, yielded, tree_iter, scope>>

\* Enter without the early return: should_prune is asked and not obeyed.
EnterIgnoringPrune ==
    /\ stack # <<>>
    /\ Top.pc = "enter"
    /\ calls' = Called("should_prune", Top.self, should_prune(traversal, Top.self))
    /\ stack' = [stack EXCEPT ![Len(stack)].pc = "loop",
                              ![Len(stack)].opt_kid = first_child(Top.self)]
    /\ UNCHANGED result
    /\ TravUnchanged

\* Enter answering false to the caller where should_prune said true.
EnterCancelling ==
    /\ stack # <<>>
    /\ Top.pc = "enter"
    /\ calls' = Called("should_prune", Top.self, should_prune(traversal, Top.self))
    /\ IF should_prune(traversal, Top.self)
       THEN Return(FALSE)
       ELSE /\ stack' = [stack EXCEPT ![Len(stack)].pc = "loop",
                                      ![Len(stack)].opt_kid = first_child(Top.self)]
            /\ UNCHANGED result
    /\ TravUnchanged

\* should_prune(self): return true, or take the first child.
Enter ==
    /\ stack # <<>>
    /\ Top.pc = "enter"
    /\ calls' = Called("should_prune", Top.self, should_prune(traversal, Top.self))
    /\ IF should_prune(traversal, Top.self)
       THEN Return(TRUE)
       ELSE /\ stack' = [stack EXCEPT ![Len(stack)].pc = "loop",
                                      ![Len(stack)].opt_kid = first_child(Top.self)]
            /\ UNCHANGED result
    /\ TravUnchanged

\* Some(kid): kid.traverse_postorder(traversal).
Descend ==
    /\ stack # <<>>
    /\ Top.pc = "loop"
    /\ Top.opt_kid # None
    /\ stack' = Append(stack, Frame(Top.opt_kid))
    /\ UNCHANGED <<calls, result>>
    /\ TravUnchanged

\* Back breaking out of the loop after the first kid.
BackBreaking ==
    /\ stack # <<>>
    /\ Top.pc = "returned"
    /\ IF ~Top.got
       THEN Return(FALSE)
       ELSE /\ stack' = [stack EXCEPT ![Len(stack)].pc = "loop",
                                      ![Len(stack)].opt_kid = None]
            /\ UNCHANGED result
    /\ UNCHANGED calls
    /\ TravUnchanged

\* Back going on with the next sibling whatever the call on kid returned.
BackIgnoringResult ==
    /\ stack # <<>>
    /\ Top.pc = "returned"
    /\ IF next_sibling(Top.opt_kid) = Fail
       THEN /\ stack' = <<>>
            /\ result' = "failed"
       ELSE /\ stack' = [stack EXCEPT ![Len(stack)].pc = "loop",
                                      ![Len(stack)].opt_kid = next_sibling(Top.opt_kid)]
            /\ UNCHANGED result
    /\ UNCHANGED calls
    /\ TravUnchanged

\* The call on kid is back: return false, or go on with kid.next_sibling().
Back ==
    /\ stack # <<>>
    /\ Top.pc = "returned"
    /\ IF ~Top.got
       THEN Return(FALSE)
       ELSE IF next_sibling(Top.opt_kid) = Fail
            THEN /\ stack' = <<>>
                 /\ result' = "failed"
            ELSE /\ stack' = [stack EXCEPT ![Len(stack)].pc = "loop",
                                           ![Len(stack)].opt_kid = next_sibling(Top.opt_kid)]
                 /\ UNCHANGED result
    /\ UNCHANGED calls
    /\ TravUnchanged

\* None: break, and traversal.process(self) is the result.
Process ==
    /\ stack # <<>>
    /\ Top.pc = "loop"
    /\ Top.opt_kid = None
    /\ calls' = Called("process", Top.self, process(traversal, Top.self))
    /\ Return(process(traversal, Top.self))
    /\ TravUnchanged

PreUnchanged ==
    UNCHANGED <<node, layout_data, ret, iter, current_node, stack, calls, result, traversal,
                scope>>

\* The handles children(n) yields.  next_sibling is a function of the handle
\* alone, so a chain that has not given none (or failed) after as many steps
\* as there are nodes has come back to a handle and goes round for ever.
RECURSIVE Follow(_, _)
\* The current_node values of an iterator that stands at cur, k calls on.
Follow(cur, k) ==
    IF cur \in {None, Fail} \/ k = 0 THEN {cur}
    ELSE {cur} \cup Follow(next_sibling(cur), k - 1)

Chain(n) == Follow(children(n), Cardinality(Nodes))

ChainEnds(n) == None \in Chain(n) \/ Fail \in Chain(n)

RECURSIVE Under(_, _, _)
\* S and every handle within k levels of children below S, kids[n] being
\* the handles children(n) yields.
Under(kids, S, k) ==
    IF k = 0 THEN S
    ELSE Under(kids, S \cup UNION {kids[n] : n \in S}, k - 1)

\* gather_layout_nodes(cur, ..) returns: every children() loop it runs ends
\* and no handle is found below itself.  On any other document the recursion
\* never returns and traverse_preorder hands out no iterator.
GatherEnds(cur) ==
    LET kids == [n \in Nodes |-> Chain(n) \ {None, Fail}]
        ends == {n \in Nodes : ChainEnds(n)}
        met  == Under(kids, {cur}, Cardinality(Nodes))
    IN /\ met \subseteq ends
       /\ \A n \in met : n \notin Under(kids, kids[n], Cardinality(Nodes))

\* traverse_preorder on the root: gather the handles, then LayoutTreeIterator::new.
TraversePreorder ==
    /\ result = "none"
    /\ tree_iter.status = "idle"
    /\ GatherEnds(1)
    /\ LET g == gather_layout_nodes(1, FALSE) IN
          tree_iter' = IF g.failed
                       THEN [nodes |-> <<>>, index |-> 0, status |-> "failed"]
                       ELSE [nodes |-> g.refs, index |-> 0, status |-> "active"]
    /\ UNCHANGED yielded
    /\ PreUnchanged

TreeIterNext ==
    /\ tree_iter.status = "active"
    /\ Nones(yielded) < MaxNone
    /\ tree_iter' = [tree_iter EXCEPT !.index = tree_iter_next(tree_iter).index,
                        !.status = IF Nones(yielded) + 1 = MaxNone
                                      /\ tree_iter_next(tree_iter).returns = None
                                   THEN "dropped" ELSE "active"]
    /\ yielded' = Append(yielded, tree_iter_next(tree_iter).returns)
    /\ PreUnchanged

Next ==
    \/ TraversePostorder
    \/ Enter
    \/ Descend
    \/ Back
    \/ Process
    \/ TraversePreorder
    \/ TreeIterNext

Spec == Init /\ [][Next]_vars

----------------------------------------------------------------------------
(* Postorder traversal: what the recorded should_prune and process calls say. *)

RECURSIVE ViewFrom(_), PreorderFrom(_), PostorderFrom(_)

\* The handles a traversal meets from sibling k on: k, what is below it, and
\* the same for the siblings that follow, all through the pseudo-aware view.
ViewFrom(k) ==
    IF k \in {None, Fail} THEN {}
    ELSE {k} \cup ViewFrom(first_child(k)) \cup ViewFrom(next_sibling(k))

ViewBelow(n) == ViewFrom(first_child(n))

\* Depth-first orders of the document's own linkage from sibling k on.
PreorderFrom(k) ==
    IF k = None THEN <<>>
    ELSE <<k>> \o PreorderFrom(node[k].first_child) \o PreorderFrom(node[k].next_sibling)

PostorderFrom(k) ==
    IF k = None THEN <<>>
    ELSE PostorderFrom(node[k].first_child) \o <<k>> \o PostorderFrom(node[k].next_sibling)

RealPreorder(n) == <<n>> \o PreorderFrom(node[n].first_child)

RealPostorder(n) == PostorderFrom(node[n].first_child) \o <<n>>

\* n and every descendant of n, in the document and in the pseudo-aware view.
Subtree(n) == Range(RealPreorder(n)) \cup {n} \cup ViewBelow(n)

IsProcess(c) == c.fn = "process"

ProcessCalls == SelectSeq(calls, IsProcess)

ProcessOrder == [i \in 1..Len(ProcessCalls) |-> ProcessCalls[i].node]

Processed == Range(ProcessOrder)

\* The nodes should_prune was asked about and answered true for.
Pruned ==
    {calls[i].node : i \in {k \in 1..Len(calls) :
                               calls[k].fn = "should_prune" /\ calls[k].returned}}

\* The step is a should_prune call that answered true.
PruneStep ==
    /\ Len(calls') = Len(calls) + 1
    /\ calls'[Len(calls')].fn = "should_prune"
    /\ calls'[Len(calls')].returned

\* The activation on top of the stack returns v in this step.
Returns(v) ==
    /\ Len(stack') = Len(stack) - 1
    /\ IF stack' = <<>>
       THEN result' = IF v THEN "true" ELSE "false"
       ELSE /\ stack'[Len(stack')].pc = "returned"
            /\ stack'[Len(stack')].got = v
            /\ stack'[Len(stack')].opt_kid = Top.self

\* C1: for every node n where should_prune answers true, process is never
\* invoked on n nor on any descendant of n during the traversal, and the
\* recursive call on n returns true (at once, to its caller).
C1_PruneSkipsSubtree ==
    /\ [](\A n \in Pruned : Processed \cap Subtree(n) = {})
    /\ [][PruneStep => Returns(TRUE)]_vars

\* A finished traversal that met a pruned node with descendants below the root
\* and processed the nodes outside it.
C1_Witness ==
    /\ result = "true"
    /\ \E n \in Pruned \ {1} : ViewBelow(n) # {}
    /\ Len(ProcessOrder) >= 2

\* The descendants of n the traversal does not skip.
NonPrunedBelow(n) == ViewBelow(n) \ UNION {Subtree(p) : p \in Pruned}

\* C2: process(n) is invoked strictly after the process calls of all of n's
\* non-pruned descendants (as surfaced by the pseudo-aware first_child and
\* next_sibling), and no descendant of n is processed after n.
C2_ProcessAfterDescendants ==
    \A j \in 1..Len(ProcessOrder) :
        /\ \A d \in NonPrunedBelow(ProcessOrder[j]) :
              \E i \in 1..(j - 1) : ProcessOrder[i] = d
        /\ \A i \in (j + 1)..Len(ProcessOrder) :
              ProcessOrder[i] \notin ViewBelow(ProcessOrder[j])

\* A finished traversal of a view with a synthesized node in it and a node
\* below the root that has descendants of its own.
C2_Witness ==
    /\ result = "true"
    /\ Pruned = {}
    /\ Processed \cap PseudoNodes # {}
    /\ \E n \in Processed \ {1} : ViewBelow(n) # {}
    /\ ProcessOrder[Len(ProcessOrder)] = 1

\* A process call has answered false.
FalseSeen == \E i \in 1..Len(ProcessCalls) : ~ProcessCalls[i].returned

\* C3: once a process call returns false no further process call is made (on
\* a later sibling, on an ancestor, anywhere), every activation returns false
\* in turn, and the top-level call returns false.
C3_FalseStopsTraversal ==
    /\ [](\A i \in 1..Len(ProcessCalls) :
             ~ProcessCalls[i].returned => i = Len(ProcessCalls))
    /\ [](FalseSeen => result = IF stack = <<>> THEN "false" ELSE "running")
    /\ [][FalseSeen => Returns(FALSE) /\ calls' = calls]_vars

\* process answered false on a node below the root that has a later sibling,
\* and the traversal is over.
C3_Witness ==
    /\ result = "false"
    /\ stack = <<>>
    /\ Len(ProcessCalls) >= 2
    /\ LET last == ProcessCalls[Len(ProcessCalls)] IN
          /\ ~last.returned
          /\ last.node # 1
          /\ next_sibling(last.node) \notin {None, Fail}

\* No side-table entry holds a pseudo style or a pseudo node.
NoPseudoData ==
    \A n \in Nodes : layout_data[n] \in {EmptyData, NoData}

\* s is the sequence full, as far as the iterator has got, None from its end on.
YieldsExactly(full) ==
    \A i \in 1..Len(yielded) : yielded[i] = IF i <= Len(full) THEN full[i] ELSE None

\* C8: where no node has a pseudo style or pseudo node in its side-table,
\* traverse_preorder yields exactly the depth-first preorder of the real tree,
\* and traverse_postorder with no pruning and process always true invokes
\* process in exactly the real tree's depth-first postorder.
C8_RealOrders ==
    NoPseudoData =>
        /\ tree_iter.status # "failed"
        /\ tree_iter.status # "idle" =>
              /\ tree_iter.nodes = RealPreorder(1)
              /\ Len(yielded) >= tree_iter.index
              /\ YieldsExactly(RealPreorder(1))
        /\ (result # "none" /\ traversal = NoTraversal) =>
              /\ result \in {"running", "true"}
              /\ Len(ProcessOrder) <= Len(RealPostorder(1))
              /\ ProcessOrder = SubSeq(RealPostorder(1), 1, Len(ProcessOrder))
              /\ result = "true" => ProcessOrder = RealPostorder(1)

\* Root -> [A, B], A -> [Text]: both traversals are through.
C8_Witness ==
    /\ NoPseudoData
    /\ node[1].first_child = 2 /\ node[2].next_sibling = 4
    /\ node[2].first_child = 3 /\ node[3].type_id = "text"
    /\ node[4].type_id = "element"
    /\ yielded = <<1, 2, 3, 4, None, None>>
    /\ traversal = NoTraversal
    /\ result = "true"
    /\ ProcessOrder = <<3, 2, 4, 1>>

----------------------------------------------------------------------------
(* The leaf accessors and the element view: what a node holds besides its
   linkage (its element type id, its text, its image URL, its iframe size,
   its attributes), and the calls that read it. *)

ElementTypeIds ==
    {"HTMLAnchorElementTypeId", "HTMLAreaElementTypeId", "HTMLLinkElementTypeId",
     "HTMLImageElementTypeId", "HTMLIframeElementTypeId", "HTMLDivElementTypeId"}

Strings == {"", "x", " "}

Urls == {"http://a/", "b.png"}

NoSize == [some |-> FALSE, pipeline_id |-> 0, subpage_id |-> 0]

Sizes == {NoSize, [some |-> TRUE, pipeline_id |-> 1, subpage_id |-> 2]}

NoUrl == [some |-> FALSE, url |-> ""]

Images == {NoUrl} \cup {[some |-> TRUE, url |-> u] : u \in Urls}

Null == "null"

Href(v) == [namespace |-> Null, name |-> "href", value |-> v]

Title == [namespace |-> Null, name |-> "title", value |-> "t"]

AttrLists == {{}, {Title}} \cup UNION {{{Href(u)}, {Href(u), Title}} : u \in Urls}

\* What an accessor call comes to: it aborts, or it returns nothing, or a value.
Aborted == [failed |-> TRUE, some |-> FALSE, value |-> ""]

Absent == [failed |-> FALSE, some |-> FALSE, value |-> ""]

Value(v) == [failed |-> FALSE, some |-> TRUE, value |-> v]

is_image_element(n) ==
    is_element(n) /\ node[n].element_type_id = "HTMLImageElementTypeId"

is_iframe_element(n) ==
    is_element(n) /\ node[n].element_type_id = "HTMLIframeElementTypeId"

\* with_image_element: fail!("node is not an image element"), else the closure.
image_url(n) ==
    IF ~is_image_element(n) THEN Aborted
    ELSE IF node[n].image.some THEN Value(node[n].image.url) ELSE Absent

\* with_iframe_element: fail!("node is not an iframe element"), else
\* iframe_element.size.unwrap() and the two ids.
iframe_pipeline_and_subpage_ids(n) ==
    IF ~is_iframe_element(n) THEN Aborted
    ELSE IF ~node[n].size.some THEN Aborted
    ELSE Value(<<node[n].size.pipeline_id, node[n].size.subpage_id>>)

\* text without the kind test of with_imm_text.
text_unchecked(n) == Value(node[n].data)

\* with_text: AbstractNode::with_imm_text fails on a node that is not text,
\* else text.element.data.to_str().
text(n) == IF ~is_text(n) THEN Aborted ELSE Value(node[n].data)

\* is_text() && with_text(|text| text.element.data.is_whitespace())
is_ignorable_whitespace(n) ==
    IF ~is_text(n) THEN Value(FALSE) ELSE Value(node[n].data \in {"", " "})

\* Element::get_attr_val_for_layout(namespace, name)
get_attr(n, ns_url, name) ==
    LET hits == {a \in node[n].attrs : a.namespace = ns_url /\ a.name = name} IN
    IF hits = {} THEN Absent ELSE Value((CHOOSE a \in hits : TRUE).value)

\* get_link without the match on the element's type id.
get_link_any_kind(n) == get_attr(n, Null, "href")

\* with_element(|e| e.get_link()): with_imm_element fails on a non-element.
get_link(n) ==
    IF ~is_element(n) THEN Aborted
    ELSE IF node[n].element_type_id \in
              {"HTMLAnchorElementTypeId", "HTMLAreaElementTypeId", "HTMLLinkElementTypeId"}
    THEN get_attr(n, Null, "href")
    ELSE Absent

\* What a node of each kind may hold.
NoContent ==
    [element_type_id |-> "", data |-> "", image |-> NoUrl, size |-> NoSize, attrs |-> {}]

Contents(kind) ==
    CASE kind = "text" -> {[NoContent EXCEPT !.data = d] : d \in Strings}
      [] kind = "element" ->
            {[NoContent EXCEPT !.element_type_id = e, !.attrs = a] :
                e \in ElementTypeIds \ {"HTMLImageElementTypeId", "HTMLIframeElementTypeId"},
                a \in AttrLists}
            \cup {[NoContent EXCEPT !.element_type_id = "HTMLImageElementTypeId",
                                    !.image = i, !.attrs = a] :
                    i \in Images, a \in {{}, {Href("b.png")}}}
            \cup {[NoContent EXCEPT !.element_type_id = "HTMLIframeElementTypeId",
                                    !.size = z] : z \in Sizes}
      [] OTHER -> {NoContent}

DefaultContent(kind) ==
    IF kind = "element"
    THEN [NoContent EXCEPT !.element_type_id = "HTMLDivElementTypeId"]
    ELSE NoContent

\* The linkage record r of a node with what the node holds.
WithContent(r, c) ==
    [type_id |-> r.type_id, tag_name |-> r.tag_name, parent_node |-> r.parent_node,
     first_child |-> r.first_child, last_child |-> r.last_child,
     prev_sibling |-> r.prev_sibling, next_sibling |-> r.next_sibling,
     element_type_id |-> c.element_type_id, data |-> c.data, image |-> c.image,
     size |-> c.size, attrs |-> c.attrs]

\* A document whose node pn holds c and whose other nodes hold the default.
ContentDocument(doc, pn, c) ==
    [n \in Nodes |->
        WithContent(doc[n], IF n = pn THEN c ELSE DefaultContent(doc[n].type_id))]

InitAcc ==
    \E pv \in ParentVectors :
    \E kd \in KindChoices(pv, {"element", "document"}) :
    \E pn \in RealNodes :
    \E c \in Contents(kd[pn]) :
        /\ node = ContentDocument(Document(pv, kd, MaxReal, "unlinked", "before"), pn, c)
        /\ layout_data = SideTable(pv, MaxReal, EmptyData, EmptyData)
        /\ Idle

CallText == ret' = [op |-> "text", val |-> [n \in Nodes |-> text(n)]] /\ NavUnchanged

CallImageUrl ==
    ret' = [op |-> "image_url", val |-> [n \in Nodes |-> image_url(n)]] /\ NavUnchanged

CallIframePipelineAndSubpageIds ==
    /\ ret' = [op |-> "iframe_pipeline_and_subpage_ids",
               val |-> [n \in Nodes |-> iframe_pipeline_and_subpage_ids(n)]]
    /\ NavUnchanged

CallIsIgnorableWhitespace ==
    /\ ret' = [op |-> "is_ignorable_whitespace",
               val |-> [n \in Nodes |-> is_ignorable_whitespace(n)]]
    /\ NavUnchanged

CallGetLink == ret' = [op |-> "get_link", val |-> [n \in Nodes |-> get_link(n)]] /\ NavUnchanged

NextAcc ==
    \/ CallText
    \/ CallImageUrl
    \/ CallIframePipelineAndSubpageIds
    \/ CallIsIgnorableWhitespace
    \/ CallGetLink

SpecAcc == InitAcc /\ [][NextAcc]_vars

\* C11: text() on a non-text handle, image_url() on a non-image handle and
\* iframe_pipeline_and_subpage_ids() on a non-iframe handle abort and return no
\* data; text() on a text handle returns exactly the stored string.
C11_KindGatedAccessors ==
    \A n \in Nodes :
        /\ ret.op = "text" =>
              IF node[n].type_id = "text"
              THEN ret.val[n] = [failed |-> FALSE, some |-> TRUE, value |-> node[n].data]
              ELSE ret.val[n].failed /\ ~ret.val[n].some
        /\ (ret.op = "image_url"
              /\ ~(node[n].type_id = "element"
                     /\ node[n].element_type_id = "HTMLImageElementTypeId"))
              => ret.val[n].failed /\ ~ret.val[n].some
        /\ (ret.op = "iframe_pipeline_and_subpage_ids"
              /\ ~(node[n].type_id = "element"
                     /\ node[n].element_type_id = "HTMLIframeElementTypeId"))
              => ret.val[n].failed /\ ~ret.val[n].some

\* text() has been called on a document with a text node holding "x" below an
\* element: the one returns "x", the other aborts.
C11_Witness ==
    /\ ret.op = "text"
    /\ \E n \in RealNodes :
          /\ node[n].type_id = "text" /\ node[n].data = "x"
          /\ ret.val[n] = Value("x")
          /\ ret.val[node[n].parent_node] = Aborted

LinkKinds == {"HTMLAnchorElementTypeId", "HTMLAreaElementTypeId", "HTMLLinkElementTypeId"}

HrefsOf(n) == {a.value : a \in {b \in node[n].attrs : b.name = "href"}}

\* C12: get_link returns the value of the element's href attribute if and only
\* if the element is an anchor, area or link element and has an href attribute;
\* for every other element kind, and without href, it returns absence.
C12_LinkTarget ==
    ret.op = "get_link" =>
        \A n \in Nodes :
            node[n].type_id = "element" =>
                IF node[n].element_type_id \in LinkKinds /\ HrefsOf(n) # {}
                THEN /\ ~ret.val[n].failed /\ ret.val[n].some
                     /\ ret.val[n].value \in HrefsOf(n)
                ELSE ret.val[n] = [failed |-> FALSE, some |-> FALSE, value |-> ""]

\* get_link has been called where an area element has an href (and a title)
\* and another element has neither the kind nor the attribute.
C12_Witness ==
    /\ ret.op = "get_link"
    /\ \E n, m \in Nodes :
          /\ node[n].type_id = "element"
          /\ node[n].element_type_id = "HTMLAreaElementTypeId"
          /\ node[n].attrs = {Href("http://a/"), Title}
          /\ ret.val[n] = Value("http://a/")
          /\ node[m].type_id = "element"
          /\ node[m].element_type_id = "HTMLDivElementTypeId"
          /\ ret.val[m] = Absent

----------------------------------------------------------------------------
(* Every reading operation at once: navigation, the children iterator, both
   traversals and the accessors, called in any order on one document. *)

\* Root -> [A, B, ...], A -> [Text]: node 3 is the text below element 2.
ReadShape == [k \in RealNodes |-> IF k = 1 THEN None ELSE IF k = 3 THEN 2 ELSE 1]

ReadKinds == [k \in RealNodes |-> IF k = 3 THEN "text" ELSE "element"]

InitRead ==
    \E lm \in LinkModes :
    \E c \in {[NoContent EXCEPT !.data = "x"]} :
        /\ node = ContentDocument(Document(ReadShape, ReadKinds, 3, lm, TagFor(lm)), 3, c)
        /\ layout_data = SideTable(ReadShape, 3, AttachedEntry(lm), EmptyData)
        /\ Idle

\* The layout task is one thread: it makes its navigation and accessor calls,
\* then iterates over children or runs the traversals.
NextRead ==
    \/ /\ iter.status = "idle" /\ result = "none" /\ tree_iter.status = "idle"
       /\ (NextNav \/ NextAcc)
    \/ /\ result = "none" /\ tree_iter.status = "idle"
       /\ NextIter
    \/ /\ iter.status = "idle"
       /\ Next

SpecRead == InitRead /\ [][NextRead]_vars

\* C13: every operation other than the linkage setters is read-only: through
\* any sequence of navigation, iteration, traversal, necessary_pseudo_elements
\* and accessor calls every node's linkage fields and every side-table entry
\* stay as they were.
C13_ReadOnly ==
    [][node' = node /\ layout_data' = layout_data]_vars

\* An accessor was called, then both traversals ran over a view that holds an
\* attached Before node, and the linkage and the side-table are as attached.
C13_Witness ==
    /\ ret.op = "text"
    /\ tree_iter.status = "dropped"
    /\ result = "true"
    /\ PseudoNode \in Processed
    /\ node[PseudoNode].next_sibling = 3
    /\ node[3].prev_sibling = None
    /\ layout_data[3].before_node = PseudoNode

----------------------------------------------------------------------------
(* The linkage setters, called by the pass that attaches synthesized nodes. *)

\* Setter calls made in one run.
MaxSets == 2

\* self.node.mut_node().<field> = Some(new.node)
set_parent_node(self, new_parent_node) ==
    [node EXCEPT ![self].parent_node = new_parent_node]

set_first_child(self, new_first_child) ==
    [node EXCEPT ![self].first_child = new_first_child]

set_last_child(self, new_last_child) ==
    [node EXCEPT ![self].last_child = new_last_child]

set_prev_sibling(self, new_prev_sibling) ==
    [node EXCEPT ![self].prev_sibling = new_prev_sibling]

\* A set_next_sibling that writes the reciprocal link as well.
set_next_sibling_reciprocal(self, new_next_sibling) ==
    [node EXCEPT ![self].next_sibling = new_next_sibling,
                 ![new_next_sibling].prev_sibling = self]

set_next_sibling(self, new_next_sibling) ==
    [node EXCEPT ![self].next_sibling = new_next_sibling]

\* The handles the attaching pass holds: element A, its text child, and the
\* two synthesized nodes.
SetHandles == {2, 3, PseudoParent, PseudoNode}

InitSet ==
    \E lm \in LinkModes :
        /\ node = Document(ReadShape, ReadKinds, 3, lm, TagFor(lm))
        /\ layout_data = SideTable(ReadShape, 3, AttachedEntry(lm), EmptyData)
        /\ Idle

SetUnchanged ==
    UNCHANGED <<layout_data, ret, iter, current_node, yielded, stack, result, traversal,
                tree_iter, scope>>

SetParentNode ==
    /\ Len(calls) < MaxSets
    /\ \E self, new \in SetHandles :
          /\ node' = set_parent_node(self, new)
          /\ calls' = Called("set_parent_node", self, new)
    /\ SetUnchanged

SetFirstChild ==
    /\ Len(calls) < MaxSets
    /\ \E self, new \in SetHandles :
          /\ node' = set_first_child(self, new)
          /\ calls' = Called("set_first_child", self, new)
    /\ SetUnchanged

SetLastChild ==
    /\ Len(calls) < MaxSets
    /\ \E self, new \in SetHandles :
          /\ node' = set_last_child(self, new)
          /\ calls' = Called("set_last_child", self, new)
    /\ SetUnchanged

SetPrevSibling ==
    /\ Len(calls) < MaxSets
    /\ \E self, new \in SetHandles :
          /\ node' = set_prev_sibling(self, new)
          /\ calls' = Called("set_prev_sibling", self, new)
    /\ SetUnchanged

SetNextSibling ==
    /\ Len(calls) < MaxSets
    /\ \E self, new \in SetHandles :
          /\ node' = set_next_sibling(self, new)
          /\ calls' = Called("set_next_sibling", self, new)
    /\ SetUnchanged

NextSet ==
    \/ SetParentNode
    \/ SetFirstChild
    \/ SetLastChild
    \/ SetPrevSibling
    \/ SetNextSibling

SpecSet == InitSet /\ [][NextSet]_vars

RECURSIVE ChainFrom(_, _)

\* The nodes met from the nodes of S by following first_child and
\* next_sibling, in at most k more steps.
ChainFrom(S, k) ==
    LET T == S \cup ({node[n].first_child : n \in S} \ {None})
               \cup ({node[n].next_sibling : n \in S} \ {None})
    IN IF k = 0 \/ T = S THEN S ELSE ChainFrom(T, k - 1)

\* C14: in every state reachable through the exposed operations, the linkage
\* setters included, no synthesized pseudo node is reachable from a real
\* document node by following the first_child / next_sibling fields.
C14_PseudoNeverLinked ==
    ChainFrom(RealNodes, Cardinality(Nodes)) \cap PseudoNodes = {}

----------------------------------------------------------------------------
(* Handles and their scope: a LayoutNode is a node with the chain it was
   made under; with_layout_node makes the first one, every other one comes
   from new_with_this_lifetime. *)

\* with_layout_node calls made in one run.
MaxScopes == 2

BodyValues == {"r1", "r2"}

\* A handle made with a chain of its own instead of the maker's.
new_with_static_lifetime(self, n) == [node |-> n, chain |-> None]

\* LayoutNode { node: node, chain: self.chain }
new_with_this_lifetime(self, n) == [node |-> n, chain |-> self.chain]

\* The navigation steps a body may take on a handle it holds.
Steps ==
    {"first_child", "next_sibling", "prev_sibling", "parent_node", "get_pseudo_node_before",
     "get_pseudo_node_after"}

Step(n, op) ==
    CASE op = "first_child" -> first_child(n)
      [] op = "next_sibling" -> next_sibling(n)
      [] op = "prev_sibling" -> prev_sibling(n)
      [] op = "parent_node" -> parent_node(n)
      [] op = "get_pseudo_node_before" -> get_pseudo_node(n, Before)
      [] OTHER -> get_pseudo_node(n, After)

\* The handles the step hands back: Some(self.new_with_this_lifetime(node)), or none.
Derived(h, op) ==
    IF Step(h.node, op) \in {None, Fail} THEN {}
    ELSE {new_with_this_lifetime(h, Step(h.node, op))}

\* The handles traverse_preorder collects from h: clones of what the children
\* iterators returned, and of h.
Gathered(h) ==
    IF gather_layout_nodes(h.node, FALSE).failed THEN {}
    ELSE {new_with_this_lifetime(h, gather_layout_nodes(h.node, FALSE).refs[i]) :
            i \in 1..Len(gather_layout_nodes(h.node, FALSE).refs)}

\* with_layout_node hands back what f returned.
with_layout_node_result(body) == body

ScopeUnchanged ==
    UNCHANGED <<node, layout_data, ret, iter, current_node, yielded, stack, calls, result,
                traversal, tree_iter>>

\* with_layout_node(node, f): heavy_iron_ball is made and f gets the handle.
WithLayoutNode ==
    /\ scope.chain = None
    /\ scope.made < MaxScopes
    /\ \E n \in RealNodes :
          scope' = [chain |-> scope.made + 1, live |-> {scope.made + 1},
                    handles |-> {[node |-> n, chain |-> scope.made + 1]},
                    made |-> scope.made + 1, body |-> "", returned |-> scope.returned]
    /\ ScopeUnchanged

\* The body navigates from a handle it holds.
BodyNavigates ==
    /\ scope.chain # None
    /\ scope.body = ""
    /\ \E h \in scope.handles : \E op \in Steps :
          scope' = [scope EXCEPT !.handles = @ \cup Derived(h, op)]
    /\ ScopeUnchanged

\* The body runs traverse_preorder from a handle it holds.
BodyTraverses ==
    /\ scope.chain # None
    /\ scope.body = ""
    /\ \E h \in scope.handles : scope' = [scope EXCEPT !.handles = @ \cup Gathered(h)]
    /\ ScopeUnchanged

\* f returns a value; its type R cannot name the handle's lifetime.
BodyReturns ==
    /\ scope.chain # None
    /\ scope.body = ""
    /\ \E v \in BodyValues : scope' = [scope EXCEPT !.body = v]
    /\ ScopeUnchanged

\* with_layout_node returns: heavy_iron_ball and the handles chained to it go.
WithLayoutNodeReturns ==
    /\ scope.chain # None
    /\ scope.body # ""
    /\ scope' = [scope EXCEPT !.chain = None, !.live = {}, !.handles = {}, !.body = "",
                              !.returned = with_layout_node_result(scope.body)]
    /\ ScopeUnchanged

NextScope ==
    \/ WithLayoutNode
    \/ BodyNavigates
    \/ BodyTraverses
    \/ BodyReturns
    \/ WithLayoutNodeReturns

SpecScope == InitSet /\ [][NextScope]_vars

\* C15: every handle navigation or traversal produces carries the scope token
\* of the handle it came from, so no handle has a scope that outlives the
\* with_layout_node call it was derived in; with_layout_node returns exactly
\* the value its body returned.
C15_ScopedHandles ==
    /\ [](\A h \in scope.handles : h.chain = scope.chain /\ h.chain \in scope.live)
    /\ [](scope.chain = None => scope.handles = {} /\ scope.live = {})
    /\ [][(scope.chain # None /\ scope'.chain = None) => scope'.returned = scope.body]_vars

\* The second with_layout_node call holds the handles of an element, of what
\* is below it and of a surfaced synthesized node, after the first returned "r1".
C15_Witness ==
    /\ scope.made = 2
    /\ scope.chain = 2
    /\ scope.returned = "r1"
    /\ {[node |-> 2, chain |-> 2], [node |-> 3, chain |-> 2],
        [node |-> PseudoNode, chain |-> 2]} \subseteq scope.handles

----------------------------------------------------------------------------
(* The resolver, function by function. *)

\* The side-table entry d makes kind k eligible with display disp: it is
\* there and records a pseudo parent node of that display.
EligibleIn(d, k, disp) ==
    /\ d.present
    /\ (IF k = Before THEN d.before_parent_node ELSE d.after_parent_node).node # None
    /\ (IF k = Before THEN d.before_parent_node ELSE d.after_parent_node).display = disp

C17_ElementReadsRealChild ==
    \A k \in PseudoElement :
        ret.op = GetPseudoNodeOp(k) =>
            \A n \in Nodes :
                node[n].type_id = "element" =>
                    LET c == node[n].first_child IN
                    IF c # None /\ EligibleIn(layout_data[c], k, "block")
                    THEN ret.val[n] = RecordedOf(layout_data[c], k)
                    ELSE ret.val[n] = None

\* The first child as first_child gives it: the Before node of a text first
\* child whose own entry makes it eligible inline, else the linked first child.
SurfacedFirstChild(n) ==
    LET c == node[n].first_child IN
    IF /\ c # None
       /\ node[c].type_id = "text"
       /\ EligibleIn(layout_data[c], Before, "inline")
       /\ layout_data[c].before_node # None
    THEN layout_data[c].before_node
    ELSE c

\* C17, amended: get_pseudo_node(n, kind) for an element n reads the entry of
\* the first child as the pseudo-aware first_child gives it: it returns a node
\* if and only if that entry records a pseudo parent node for kind with display
\* block, and it returns that pseudo parent node; none when n has no child.
C17_ElementReadsSurfacedChild ==
    \A k \in PseudoElement :
        ret.op = GetPseudoNodeOp(k) =>
            \A n \in Nodes :
                node[n].type_id = "element" =>
                    LET c == SurfacedFirstChild(n) IN
                    IF c # None /\ EligibleIn(layout_data[c], k, "block")
                    THEN ret.val[n] =
                            (IF k = Before THEN layout_data[c].before_parent_node
                             ELSE layout_data[c].after_parent_node).node
                    ELSE ret.val[n] = None

\* get_pseudo_node(Before) was called on an element whose first child records
\* a block Before parent and a before_node: the parent is what comes back.
C17_Witness ==
    /\ ret.op = GetPseudoNodeOp(Before)
    /\ \E n \in RealNodes :
          /\ node[n].type_id = "element"
          /\ node[n].first_child # None
          /\ EligibleIn(layout_data[node[n].first_child], Before, "block")
          /\ layout_data[node[n].first_child].before_node = PseudoNode
          /\ ret.val[n] = PseudoParent

\* Documents with the synthesized nodes attached beside pn, and a side-table
\* entry on some node q, which may or may not be pn.
InitMarker ==
    \E pv \in ParentVectors :
    \E kd \in KindChoices(pv, {"element"}) :
    \E pn \in RealNodes \ {1} :
    \E q \in RealNodes \ {1} :
    \E lm \in LinkModes \ {"unlinked"} :
    \E own \in IterEntries :
        /\ node = Document(pv, kd, pn, lm, TagFor(lm))
        /\ layout_data = SideTable(pv, q, own, EmptyData)
        /\ Idle

SpecMarker == InitMarker /\ [][NextNav]_vars

\* x is an element tagged tag, or a text child of one.
Marker(x, tag) ==
    \/ node[x].type_id = "element" /\ node[x].tag_name = tag
    \/ /\ node[x].type_id = "text"
       /\ node[x].parent_node # None
       /\ node[node[x].parent_node].type_id = "element"
       /\ node[node[x].parent_node].tag_name = tag

\* C18: for every node tagged "before" or "after", and every text child of
\* such a node, both next_sibling and prev_sibling return exactly the plain
\* linkage field, with no pseudo substitution.
C18_MarkersPlain ==
    \A x \in Nodes :
        (Marker(x, "before") \/ Marker(x, "after")) =>
            /\ ret.op = "next_sibling" => ret.val[x] = node[x].next_sibling
            /\ ret.op = "prev_sibling" => ret.val[x] = node[x].prev_sibling

\* C18, amended: next_sibling returns the plain next_sibling field for a node
\* tagged "before" and for a text child of one; prev_sibling returns the plain
\* prev_sibling field for a node tagged "after" and for a text child of one.
C18_MarkersPlainOneWay ==
    \A x \in Nodes :
        /\ (ret.op = "next_sibling" /\ Marker(x, "before"))
              => ret.val[x] = node[x].next_sibling
        /\ (ret.op = "prev_sibling" /\ Marker(x, "after"))
              => ret.val[x] = node[x].prev_sibling

\* next_sibling was called on the text child of a "before" element whose next
\* sibling records it as its inline Before node: the sibling comes back.
C18_Witness ==
    /\ ret.op = "next_sibling"
    /\ Marker(PseudoNode, "before")
    /\ node[PseudoNode].next_sibling # None
    /\ get_pseudo_node(node[PseudoNode].next_sibling, Before) = PseudoNode
    /\ ret.val[PseudoNode] = node[PseudoNode].next_sibling

NotMarker(n) == ~Marker(n, "before") /\ ~Marker(n, "after")

\* C19: next_sibling(n) for a node n that is not a pseudo marker nor a text
\* child of one returns n's own After pseudo node if get_pseudo_node(n, After)
\* is eligible; otherwise none if n has no real next sibling; otherwise the
\* Before pseudo node of the real next sibling s if get_pseudo_node(s, Before)
\* is eligible; otherwise s itself.
C19_NextSibling ==
    ret.op = "next_sibling" =>
        \A n \in Nodes :
            NotMarker(n) =>
                ret.val[n] =
                    IF get_pseudo_node(n, After) # None THEN get_pseudo_node(n, After)
                    ELSE IF node[n].next_sibling = None THEN None
                    ELSE IF get_pseudo_node(node[n].next_sibling, Before) # None
                         THEN get_pseudo_node(node[n].next_sibling, Before)
                         ELSE node[n].next_sibling

\* C20: prev_sibling(n) for a node n that is not a pseudo marker nor a text
\* child of one first considers n's Before pseudo node (returning it when
\* get_pseudo_node(n, Before) is eligible); only if none applies does it move
\* to the real previous sibling s, returning s's After pseudo node when
\* eligible and s otherwise.
C20_PrevSibling ==
    ret.op = "prev_sibling" =>
        \A n \in Nodes :
            NotMarker(n) =>
                ret.val[n] =
                    IF get_pseudo_node(n, Before) # None THEN get_pseudo_node(n, Before)
                    ELSE IF node[n].prev_sibling = None THEN None
                    ELSE IF get_pseudo_node(node[n].prev_sibling, After) # None
                         THEN get_pseudo_node(node[n].prev_sibling, After)
                         ELSE node[n].prev_sibling

----------------------------------------------------------------------------
(* Nodes without a parent *)

Parentless(n) == node[n].parent_node = None

\* C21: a node with no parent never takes part in pseudo substitution: for
\* every parentless node n, next_sibling(n) and prev_sibling(n) return the
\* plain linkage fields and get_pseudo_node(n, kind) is none for both kinds.
C21_ParentlessPlain ==
    \A n \in Nodes :
        Parentless(n) =>
            /\ ret.op = "next_sibling" => ret.val[n] = node[n].next_sibling
            /\ ret.op = "prev_sibling" => ret.val[n] = node[n].prev_sibling
            /\ ret.op \in {GetPseudoNodeOp(Before), GetPseudoNodeOp(After)} =>
                   ret.val[n] = None

----------------------------------------------------------------------------
(* first_child and the kind of the real first child *)

\* An entry that would put a Before pseudo node ahead of k if k were text.
RecordsInlineBefore(k) ==
    /\ layout_data[k].present
    /\ layout_data[k].before_parent_node.node # None
    /\ layout_data[k].before_parent_node.display = "inline"
    /\ layout_data[k].before_node # None

\* C22: first_child(n) returns the plainly linked first child unchanged
\* whenever that child is not a text node, whatever the side-table holds,
\* and none when n has no real first child; a Before pseudo node is put in
\* its place only when the real first child is a text node.
C22_FirstChildNonText ==
    ret.op = "first_child" =>
        \A n \in Nodes :
            LET fc == node[n].first_child IN
            /\ fc = None => ret.val[n] = None
            /\ (fc # None /\ ~is_text(fc)) => ret.val[n] = fc
            /\ ret.val[n] # fc => (fc # None /\ is_text(fc))

C22_Witness ==
    /\ ret.op = "first_child"
    /\ \E n \in Nodes :
          /\ node[n].first_child # None
          /\ is_element(node[n].first_child)
          /\ RecordsInlineBefore(node[n].first_child)
          /\ ret.val[n] = node[n].first_child
    /\ \E n \in Nodes : node[n].first_child = None /\ ret.val[n] = None

----------------------------------------------------------------------------
(* SpecPost: traverse_postorder and traverse_postorder_mut as functions of  *)
(* the handle and the traversal object: the should_prune and process calls  *)
(* they make, in order, and what they return.                               *)

Outcome(c, r) == [calls |-> c, returned |-> r]

Call(fn, n, v) == <<[fn |-> fn, node |-> n, returned |-> v]>>

RECURSIVE traverse_postorder(_, _), traverse_postorder_loop(_, _)
RECURSIVE traverse_postorder_mut(_, _), traverse_postorder_mut_loop(_, _)

\* The loop over opt_kid of traverse_postorder: None breaks; Some(kid) calls
\* kid.traverse_postorder, returns false when it did, else goes on with
\* kid.next_sibling().  "true" stands for the loop ending by break.
traverse_postorder_loop(traversal_, opt_kid) ==
    IF opt_kid = None THEN Outcome(<<>>, "true")
    ELSE LET kid == traverse_postorder(traversal_, opt_kid) IN
         IF kid.returned # "true" THEN kid
         ELSE IF next_sibling(opt_kid) = Fail THEN Outcome(kid.calls, "failed")
         ELSE LET rest == traverse_postorder_loop(traversal_, next_sibling(opt_kid)) IN
              Outcome(kid.calls \o rest.calls, rest.returned)

\* A traversal that takes its first kid from the plain linkage.
traverse_postorder_plain(traversal_, self) ==
    LET asked == Call("should_prune", self, should_prune(traversal_, self)) IN
    IF should_prune(traversal_, self) THEN Outcome(asked, "true")
    ELSE LET kids == traverse_postorder_loop(traversal_, node[self].first_child) IN
         IF kids.returned # "true" THEN Outcome(asked \o kids.calls, kids.returned)
         ELSE Outcome(asked \o kids.calls \o Call("process", self, process(traversal_, self)),
                      IF process(traversal_, self) THEN "true" ELSE "false")

traverse_postorder(traversal_, self) ==
    LET asked == Call("should_prune", self, should_prune(traversal_, self)) IN
    IF should_prune(traversal_, self) THEN Outcome(asked, "true")
    ELSE LET kids == traverse_postorder_loop(traversal_, first_child(self)) IN
         IF kids.returned # "true" THEN Outcome(asked \o kids.calls, kids.returned)
         ELSE Outcome(asked \o kids.calls \o Call("process", self, process(traversal_, self)),
                      IF process(traversal_, self) THEN "true" ELSE "false")

\* A mutating traversal that asks should_prune and descends all the same.
traverse_postorder_mut_unpruned(traversal_, self) ==
    LET asked == Call("should_prune", self, should_prune(traversal_, self))
        kids == traverse_postorder_mut_loop(traversal_, first_child(self))
    IN IF kids.returned # "true" THEN Outcome(asked \o kids.calls, kids.returned)
       ELSE Outcome(asked \o kids.calls \o Call("process", self, process(traversal_, self)),
                    IF process(traversal_, self) THEN "true" ELSE "false")

\* The loop over opt_kid of traverse_postorder_mut.
traverse_postorder_mut_loop(traversal_, opt_kid) ==
    IF opt_kid = None THEN Outcome(<<>>, "true")
    ELSE LET kid == traverse_postorder_mut(traversal_, opt_kid) IN
         IF kid.returned # "true" THEN kid
         ELSE IF next_sibling(opt_kid) = Fail THEN Outcome(kid.calls, "failed")
         ELSE LET rest == traverse_postorder_mut_loop(traversal_, next_sibling(opt_kid)) IN
              Outcome(kid.calls \o rest.calls, rest.returned)

traverse_postorder_mut(traversal_, self) ==
    LET asked == Call("should_prune", self, should_prune(traversal_, self)) IN
    IF should_prune(traversal_, self) THEN Outcome(asked, "true")
    ELSE LET kids == traverse_postorder_mut_loop(traversal_, first_child(self)) IN
         IF kids.returned # "true" THEN Outcome(asked \o kids.calls, kids.returned)
         ELSE Outcome(asked \o kids.calls \o Call("process", self, process(traversal_, self)),
                      IF process(traversal_, self) THEN "true" ELSE "false")

\* The documents of Spec, with the traversal object the two variants are given.
InitPost ==
    \E pv \in ParentVectors :
    \E kd \in KindChoices(pv, {"element", "document"}) :
    \E pn \in RealNodes \ {1} :
    \E lm \in LinkModes :
    \E t \in Traversals :
        /\ node = Document(pv, kd, pn, lm, TagFor(lm))
        /\ layout_data = SideTable(pv, pn, AttachedEntry(lm), EmptyData)
        /\ traversal = t
        /\ ret = NoCall
        /\ iter = NoIter
        /\ current_node = None
        /\ yielded = <<>>
        /\ stack = <<>>
        /\ calls = <<>>
        /\ result = "none"
        /\ tree_iter = NoTreeIter
        /\ scope = NoScope

CallTraversePostorder ==
    /\ ret' = [op |-> "traverse_postorder",
               val |-> [n \in Nodes |-> traverse_postorder(traversal, n)]]
    /\ NavUnchanged

CallTraversePostorderMut ==
    /\ ret' = [op |-> "traverse_postorder_mut",
               val |-> [n \in Nodes |-> traverse_postorder_mut(traversal, n)]]
    /\ NavUnchanged

NextPost ==
    \/ CallTraversePostorder
    \/ CallTraversePostorderMut

SpecPost == InitPost /\ [][NextPost]_vars

\* C23: the read-only and the mutating postorder variants are observably
\* equivalent: on every handle, with the same should_prune and process
\* answers, each makes the sequence of should_prune and process calls the
\* other makes, on the same nodes, and returns the same boolean.
C23_VariantsEquivalent ==
    /\ ret.op = "traverse_postorder" =>
           \A n \in Nodes : ret.val[n] = traverse_postorder_mut(traversal, n)
    /\ ret.op = "traverse_postorder_mut" =>
           \A n \in Nodes : ret.val[n] = traverse_postorder(traversal, n)

\* Both variants have run on a document where one node is pruned and process
\* fails at another that is reached: calls of both kinds, a false result.
C23_Witness ==
    /\ ret.op = "traverse_postorder_mut"
    /\ traversal.prune # {}
    /\ traversal.fail # {}
    /\ ret.val[1].returned = "false"
    /\ \E i \in 1..Len(ret.val[1].calls) :
          /\ ret.val[1].calls[i].fn = "should_prune"
          /\ ret.val[1].calls[i].returned
    /\ \E n \in PseudoNodes, i \in 1..Len(ret.val[1].calls) :
          /\ ret.val[1].calls[i].fn = "process"
          /\ ret.val[1].calls[i].node = n

----------------------------------------------------------------------------
(* SpecPass: the two iterators, one after the other, on the documents of    *)
(* SpecIter: the preorder iterator of the root until it is dropped, then a  *)
(* children iterator.                                                       *)

\* The preorder iterator comes first wherever traverse_preorder returns one.
NextPass ==
    \/ /\ iter.status = "idle"
       /\ \/ tree_iter.status \in {"dropped", "failed"}
          \/ tree_iter.status = "idle" /\ ~GatherEnds(1)
       /\ Children
    \/ ChildrenNext
    \/ /\ iter.status = "idle"
       /\ TraversePreorder
    \/ /\ iter.status = "idle"
       /\ TreeIterNext

SpecPass == InitIter /\ [][NextPass]_vars

\* What the preorder iterator has returned: the gathered handles in the
\* order gathered, one per index, then none.
ReplaysGathered ==
    /\ tree_iter.nodes = gather_layout_nodes(1, FALSE).refs
    /\ \A k \in 1..Len(yielded) :
          yielded[k] = IF k <= Len(tree_iter.nodes) THEN tree_iter.nodes[k] ELSE None
    /\ tree_iter.index = IF Len(yielded) <= Len(tree_iter.nodes)
                         THEN Len(yielded) ELSE Len(tree_iter.nodes)

NoneStays ==
    \A i, j \in 1..Len(yielded) : (i < j /\ yielded[i] = None) => yielded[j] = None

----------------------------------------------------------------------------
(* What a linkage setter writes *)

LinkFields == {"parent_node", "first_child", "last_child", "prev_sibling", "next_sibling"}

NodeFields == LinkFields \cup {"type_id", "tag_name"}

\* The field a setter is named after.
FieldOf(fn) ==
    CASE fn = "set_parent_node" -> "parent_node"
      [] fn = "set_first_child" -> "first_child"
      [] fn = "set_last_child" -> "last_child"
      [] fn = "set_prev_sibling" -> "prev_sibling"
      [] fn = "set_next_sibling" -> "next_sibling"

\* C25: each linkage setter changes exactly one field of exactly one node:
\* set_<field>(self, other) sets that field of self's node to other's node
\* and leaves self's other fields, every field of other (no reciprocal link
\* is written), every other node and every side-table entry as they were.
C25_SetterFrame ==
    [][Len(calls') = Len(calls) + 1 =>
         LET c == calls'[Len(calls')] IN
         /\ node'[c.node][FieldOf(c.fn)] = c.returned
         /\ \A f \in NodeFields \ {FieldOf(c.fn)} : node'[c.node][f] = node[c.node][f]
         /\ \A n \in Nodes \ {c.node} : node'[n] = node[n]
         /\ layout_data' = layout_data]_vars

\* set_next_sibling(self, other) has run on two different nodes: self points
\* at other and other does not point back.
C25_Witness ==
    /\ Len(calls) >= 1
    /\ LET c == calls[Len(calls)] IN
          /\ c.fn = "set_next_sibling"
          /\ c.node # c.returned
          /\ node[c.node].next_sibling = c.returned
          /\ node[c.returned].prev_sibling # c.node
          /\ node[c.returned].parent_node # node[c.node].parent_node

----------------------------------------------------------------------------
(* Pruning and the rest of the traversal *)

\* Every process call made so far has answered true.
AllProcessTrue == \A i \in 1..Len(ProcessCalls) : ProcessCalls[i].returned

Finished == result \in {"true", "false", "failed"}

\* The root and what is below it in the pseudo-aware view, but for the
\* pruned nodes and what is below them.
OutsidePruned == ({1} \cup ViewBelow(1)) \ UNION {Subtree(p) : p \in Pruned}

\* C26: pruning is not cancellation: when should_prune(n) answers true and
\* every process call answers true, the caller goes on with n's pseudo-aware
\* next sibling, process is still invoked on every node outside the pruned
\* subtrees (n's ancestors among them), and the traversal returns true.
C26_PruningNotCancellation ==
    /\ [][(stack # <<>> /\ Top.pc = "returned" /\ Top.opt_kid \in Pruned) =>
             /\ Top.got
             /\ stack' = [stack EXCEPT ![Len(stack)].pc = "loop",
                             ![Len(stack)].opt_kid = next_sibling(Top.opt_kid)]
             /\ UNCHANGED <<calls, result>>]_vars
    /\ []((Finished /\ AllProcessTrue) =>
             /\ result = "true"
             /\ OutsidePruned \subseteq Processed
             /\ \A n \in Pruned : \A a \in {1} \cup ViewBelow(1) :
                   n \in ViewBelow(a) => a \in Processed)

\* A finished traversal that pruned a node below the root whose pseudo-aware
\* next sibling is a synthesized node, processed that sibling, the pruned
\* node's parent and the root.
C26_Witness ==
    /\ result = "true"
    /\ \E n \in Pruned \ {1} :
          /\ next_sibling(n) \in PseudoNodes
          /\ next_sibling(n) \in Processed
          /\ ViewBelow(n) # {}
          /\ \E a \in Processed \ {1} : n \in ViewBelow(a)
    /\ 1 \in Processed

----------------------------------------------------------------------------
(* The postorder traversal and the gathered handles *)

\* The nodes process was invoked on, in the order of the calls c.
ProcessNodes(c) ==
    LET pc == SelectSeq(c, IsProcess) IN [i \in 1..Len(pc) |-> pc[i].node]

Occurrences(s, x) == Cardinality({i \in 1..Len(s) : s[i] = x})

\* C27: with the default should_prune (never prune) and process always
\* answering true, traverse_postorder from n invokes process exactly once on
\* each handle traverse_preorder from n yields and on no other node,
\* synthesized nodes surfaced by the resolver included, and the order of the
\* process calls is that of gather_layout_nodes in postorder mode.
C27_PostorderMatchesGather ==
    (ret.op = "traverse_postorder" /\ traversal = NoTraversal) =>
        \A n \in Nodes :
            LET done == ProcessNodes(ret.val[n].calls)
                pre  == gather_layout_nodes(n, FALSE)
                post == gather_layout_nodes(n, TRUE)
            IN /\ ~pre.failed /\ ~post.failed
               /\ ret.val[n].returned = "true"
               /\ done = post.refs
               /\ Range(done) = Range(pre.refs)
               /\ \A h \in Range(pre.refs) : Occurrences(done, h) = 1

\* The traversal of the root has processed a synthesized node among at
\* least five handles, and not in the order they are gathered in preorder.
C27_Witness ==
    /\ ret.op = "traverse_postorder"
    /\ traversal = NoTraversal
    /\ LET done == ProcessNodes(ret.val[1].calls) IN
          /\ Len(done) >= 5
          /\ Range(done) \cap PseudoNodes # {}
          /\ done # gather_layout_nodes(1, FALSE).refs
          /\ done[Len(done)] = 1
    /\ \E n \in RealNodes \ {1} : Len(ProcessNodes(ret.val[n].calls)) >= 2

====
